---- MODULE Spec2Model ----
(***************************************************************************)
(* Model of the projectapi service (src/projectapi/main.py, schema.py):    *)
(* the request handlers over the Project, ProjectUser, ProjectAnnounceUser,*)
(* ProjectAdminUser and Like relations.                                    *)
(*                                                                         *)
(* A relation is kept as a row count per (project id, username), so that a *)
(* duplicate row is a state the model can express.  The storage module     *)
(* (db.py) is not part of the sources; its behaviour (Project.get, the     *)
(* unique constraints checked at commit) follows spec.md sections 4 and 6. *)
(***************************************************************************)
EXTENDS Integers, FiniteSets, Sequences, TLC

\* ---------------------------------------------------------------- bounds
MaxProj == 1          \* project ids 1..MaxProj can be created
NumReq == 2           \* request handlers that may be in flight together
MaxSearch == 3        \* project rows of the search specification

\* ------------------------------------------------------------ input sets
KnownUsers == {"alice", "bob"}          \* user.exist(u) is True
Ghost == "ghost"                        \* user.exist(u) is False
NoUser == "none"                        \* token missing or user.auth -> None
Actors == KnownUsers \cup {NoUser}
Targets == KnownUsers \cup {Ghost}
ProjIds == 1..MaxProj
IdInputs == 1..(MaxProj + 1)            \* MaxProj + 1 is never a project
Reqs == 1..NumReq
Titles == {"Foo", "Bar"}
TagLists == {{1}, {1, 2}}                \* skilltags a request carries
SearchIds == 1..MaxSearch
SearchTitles == {"Foo", "Foob", "Bar"}  \* titles and queries of a search
Limits == {0, 2, MaxSearch}
Offsets == 0..MaxSearch

MEMBER == "member"
ANNOUNCE == "announce"
ADMIN == "admin"
all_type == <<MEMBER, ANNOUNCE, ADMIN>>
MemberType == {MEMBER, ANNOUNCE, ADMIN}

HTTP_200_OK == 200
HTTP_201_CREATED == 201
HTTP_401_UNAUTHORIZED == 401
HTTP_403_FORBIDDEN == 403
HTTP_404_NOT_FOUND == 404
HTTP_429_TOO_MANY_REQUESTS == 429
HTTP_500_STORAGE_ERROR == 500           \* unhandled storage exception

None == 0                               \* no project: ids start at 1

VARIABLES
    nextId,          \* id the next created project row gets
    is_active,       \* Project.is_active, per project id
    title,           \* Project.title (stands for the metadata fields)
    skilltags,       \* Project.skilltags
    members,         \* ProjectUser rows: members[id][u] = number of rows
    announce_users,  \* ProjectAnnounceUser rows
    admin_users,     \* ProjectAdminUser rows
    likes,           \* Like rows
    last,            \* the last handler call that returned, with its status;
                     \* dup: an identical call committed while it was running
    req              \* the handlers in flight (concurrent specification)

dbvars == <<nextId, is_active, title, skilltags, members, announce_users,
            admin_users, likes>>
vars == <<nextId, is_active, title, skilltags, members, announce_users,
          admin_users, likes, last, req>>

NoRows == [id \in ProjIds |-> [u \in KnownUsers |-> 0]]
Idle == [pc |-> "idle", actor |-> NoUser, id |-> None, target |-> NoUser,
         type |-> MEMBER, mem_list |-> {}, au_list |-> {}, adu_list |-> {},
         dup |-> FALSE]
NoCall == [op |-> "none", actor |-> NoUser, id |-> None, target |-> NoUser,
           type |-> MEMBER, result |-> 0, dup |-> FALSE]

Call(op, actor, id, target, type, result) ==
    [op |-> op, actor |-> actor, id |-> id, target |-> target,
     type |-> type, result |-> result, dup |-> FALSE]

\* ---------------------------------------------------------------- storage
\* usernames holding at least one row of relation rel for project id
Usernames(rel, id) ==
    IF id \in ProjIds THEN {u \in KnownUsers : rel[id][u] > 0} ELSE {}

RECURSIVE SumRows(_, _)
SumRows(f, S) ==
    IF S = {} THEN 0
    ELSE LET u == CHOOSE x \in S : TRUE IN f[u] + SumRows(f, S \ {u})

\* len(rows of relation rel for project id)
Len_(rel, id) == IF id \in ProjIds THEN SumRows(rel[id], KnownUsers) ELSE 0

AddRow(rel, id, u) == [rel EXCEPT ![id][u] = @ + 1]

\* variant: the storage declares no unique constraint
UniqueOk_Off(rel) == TRUE

\* the storage rejects a commit that leaves two rows for one
\* (project, username) in a relation
UniqueOk(rel) == \A id \in ProjIds : \A u \in KnownUsers : rel[id][u] <= 1

\* db.Project.get(s, id): the active project with this id, or None
Project_get(id) ==
    IF id \in ProjIds /\ id < nextId /\ is_active[id] THEN id ELSE None

tag_exist(t) == t = 1

Init ==
    /\ nextId = 1
    /\ is_active = [id \in ProjIds |-> FALSE]
    /\ title = [id \in ProjIds |-> "Foo"]
    /\ skilltags = [id \in ProjIds |-> {}]
    /\ members = NoRows
    /\ announce_users = NoRows
    /\ admin_users = NoRows
    /\ likes = NoRows
    /\ last = NoCall
    /\ req = [r \in Reqs |-> Idle]


\* ------------------------------------------------- create_project / create
\* variant: the tag check of lines 77-81 is missing
CreateStatus_NoTagCheck(actor, tags) ==
    IF actor = NoUser THEN HTTP_401_UNAUTHORIZED ELSE 0

\* main.py create_project: the checks before project.create(username)
CreateStatus(actor, tags) ==
    IF actor = NoUser THEN HTTP_401_UNAUTHORIZED
    ELSE IF \E t \in tags : ~tag_exist(t) THEN HTTP_404_NOT_FOUND
    ELSE 0

\* schema.py ProjectCreate.create, first commit: the project row
InsertProject(t, tags) ==
    /\ nextId' = nextId + 1
    /\ is_active' = [is_active EXCEPT ![nextId] = TRUE]
    /\ title' = [title EXCEPT ![nextId] = t]
    /\ skilltags' = [skilltags EXCEPT ![nextId] = tags]

\* schema.py ProjectCreate.create, second commit: the creator's three rows
InsertCreator(id, username) ==
    /\ members' = AddRow(members, id, username)
    /\ announce_users' = AddRow(announce_users, id, username)
    /\ admin_users' = AddRow(admin_users, id, username)

\* the whole handler; a project is created only while ids are left
CreateProject(actor, t, tags) ==
    LET st == CreateStatus(actor, tags) IN
    /\ IF st # 0
       THEN /\ UNCHANGED dbvars
            /\ last' = Call("create", actor, None, NoUser, MEMBER, st)
       ELSE /\ nextId <= MaxProj
            /\ InsertProject(t, tags)
            /\ InsertCreator(nextId, actor)
            /\ UNCHANGED likes
            /\ last' = Call("create", actor, nextId, NoUser, MEMBER,
                            HTTP_201_CREATED)
    /\ UNCHANGED req

\* ------------------------------------------------- update_project / update
\* the members lists an update request carries (Project.members): no
\* username, or every known username
MemberLists == {[u \in KnownUsers |-> 0], [u \in KnownUsers |-> 1]}

\* variant: the admin check of lines 121-122 is missing
UpdateStatus_NoAdminCheck(actor, id, tags) ==
    IF actor = NoUser THEN HTTP_401_UNAUTHORIZED
    ELSE IF Project_get(id) = None THEN HTTP_404_NOT_FOUND
    ELSE IF \E t \in tags : ~tag_exist(t) THEN HTTP_404_NOT_FOUND
    ELSE 0

\* main.py update_project: the checks before project_update.update()
UpdateStatus(actor, id, tags) ==
    IF actor = NoUser THEN HTTP_401_UNAUTHORIZED
    ELSE IF Project_get(id) = None THEN HTTP_404_NOT_FOUND
    ELSE IF actor \notin Usernames(admin_users, id) THEN HTTP_403_FORBIDDEN
    ELSE IF \E t \in tags : ~tag_exist(t) THEN HTTP_404_NOT_FOUND
    ELSE 0

\* schema.py Project.update: the member rows after `p.members = self.members`
UpdatedMembers(id, ms) == [members EXCEPT ![id] = ms]

\* schema.py Project.update: the assignments and the commit
Project_update(id, t, tags, ms) ==
    /\ title' = [title EXCEPT ![id] = t]
    /\ skilltags' = [skilltags EXCEPT ![id] = tags]
    /\ members' = UpdatedMembers(id, ms)
    /\ UNCHANGED <<nextId, is_active, announce_users, admin_users, likes>>

\* the effect of the whole handler on the stored relations
UpdateProject_db(actor, id, t, tags, ms) ==
    IF UpdateStatus(actor, id, tags) # 0
    THEN UNCHANGED dbvars
    ELSE Project_update(id, t, tags, ms)

UpdateResult(actor, id, tags) ==
    LET st == UpdateStatus(actor, id, tags) IN
    IF st # 0 THEN st ELSE HTTP_200_OK

UpdateProject(actor, id, t, tags, ms) ==
    /\ UpdateProject_db(actor, id, t, tags, ms)
    /\ last' = Call("update", actor, id, NoUser, MEMBER,
                    UpdateResult(actor, id, tags))
    /\ UNCHANGED req

\* ----------------------------------------------------------- delete_project
\* variant: the admin check of lines 169-170 is missing
DeleteStatus_NoAdminCheck(actor, id) ==
    IF Project_get(id) = None THEN HTTP_404_NOT_FOUND
    ELSE IF actor = NoUser THEN HTTP_401_UNAUTHORIZED
    ELSE 0

\* main.py delete_project: the checks before `p.is_active = False`
DeleteStatus(actor, id) ==
    IF Project_get(id) = None THEN HTTP_404_NOT_FOUND
    ELSE IF actor = NoUser THEN HTTP_401_UNAUTHORIZED
    ELSE IF actor \notin Usernames(admin_users, id) THEN HTTP_403_FORBIDDEN
    ELSE 0

DeactivateProject_db(actor, id) ==
    IF DeleteStatus(actor, id) # 0
    THEN UNCHANGED dbvars
    ELSE /\ is_active' = [is_active EXCEPT ![id] = FALSE]
         /\ UNCHANGED <<nextId, title, skilltags, members, announce_users,
                        admin_users, likes>>

DeleteResult(actor, id) ==
    LET st == DeleteStatus(actor, id) IN
    IF st # 0 THEN st ELSE HTTP_200_OK

DeactivateProject(actor, id) ==
    /\ DeactivateProject_db(actor, id)
    /\ last' = Call("delete", actor, id, NoUser, MEMBER,
                    DeleteResult(actor, id))
    /\ UNCHANGED req

\* ------------------------------------------------------------ like / unlike
\* user_proj_likes.count(): the Like rows of (username, id)
LikeCount(username, id) ==
    IF id \in ProjIds /\ username \in KnownUsers THEN likes[id][username]
    ELSE 0

\* variant: the "already liked" check of lines 232-238 is missing
LikeStatus_NoDupCheck(actor, id) ==
    IF actor = NoUser THEN HTTP_401_UNAUTHORIZED
    ELSE IF Project_get(id) = None THEN HTTP_404_NOT_FOUND
    ELSE 0

\* main.py like: the checks before the insert
LikeStatus(actor, id) ==
    IF actor = NoUser THEN HTTP_401_UNAUTHORIZED
    ELSE IF Project_get(id) = None THEN HTTP_404_NOT_FOUND
    ELSE IF LikeCount(actor, id) > 0 THEN HTTP_429_TOO_MANY_REQUESTS
    ELSE 0

\* main.py like: the status of s.add(like); s.commit()
LikeInsertStatus(actor, id) ==
    IF UniqueOk(AddRow(likes, id, actor)) THEN HTTP_200_OK
    ELSE HTTP_500_STORAGE_ERROR

\* main.py like: s.add(like); s.commit()
LikeInsert(actor, id) ==
    likes' = IF LikeInsertStatus(actor, id) = HTTP_200_OK
             THEN AddRow(likes, id, actor) ELSE likes

Like(actor, id) ==
    LET st == LikeStatus(actor, id) IN
    /\ IF st # 0
       THEN /\ likes' = likes
            /\ last' = Call("like", actor, id, NoUser, MEMBER, st)
       ELSE /\ LikeInsert(actor, id)
            /\ last' = Call("like", actor, id, NoUser, MEMBER,
                            LikeInsertStatus(actor, id))
    /\ UNCHANGED <<nextId, is_active, title, skilltags, members,
                   announce_users, admin_users, req>>

\* main.py unlike: the checks before likes.delete()
UnlikeStatus(actor, id) ==
    IF actor = NoUser THEN HTTP_401_UNAUTHORIZED
    ELSE IF LikeCount(actor, id) < 1 THEN HTTP_429_TOO_MANY_REQUESTS
    ELSE 0

Unlike_db(actor, id) ==
    /\ IF UnlikeStatus(actor, id) # 0
       THEN likes' = likes
       ELSE likes' = [likes EXCEPT ![id][actor] = 0]
    /\ UNCHANGED <<nextId, is_active, title, skilltags, members,
                   announce_users, admin_users>>

UnlikeResult(actor, id) ==
    LET st == UnlikeStatus(actor, id) IN
    IF st # 0 THEN st ELSE HTTP_200_OK

Unlike(actor, id) ==
    /\ Unlike_db(actor, id)
    /\ last' = Call("unlike", actor, id, NoUser, MEMBER,
                    UnlikeResult(actor, id))
    /\ UNCHANGED req

\* -------------------------------------------------------------- join_member
\* variant: "already joined?" looks at the member list for every type
AlreadyJoined_AnyTier(type, target, id) ==
    target \in Usernames(members, id)

\* main.py join_member "already joined?": the target holds the exact tier
AlreadyJoined(type, target, id) ==
    \/ type = MEMBER /\ target \in Usernames(members, id)
    \/ type = ANNOUNCE /\ target \in Usernames(announce_users, id)
    \/ type = ADMIN /\ target \in Usernames(admin_users, id)

\* variant: the admin check of lines 336-337 is missing
JoinStatus_NoAdminCheck(actor, id, target, type) ==
    IF actor = NoUser THEN HTTP_401_UNAUTHORIZED
    ELSE IF target \notin KnownUsers THEN HTTP_404_NOT_FOUND
    ELSE IF Project_get(id) = None THEN HTTP_404_NOT_FOUND
    ELSE IF AlreadyJoined(type, target, id) THEN HTTP_429_TOO_MANY_REQUESTS
    ELSE 0

\* main.py join_member: the checks before the inserts
JoinStatus(actor, id, target, type) ==
    IF actor = NoUser THEN HTTP_401_UNAUTHORIZED
    ELSE IF target \notin KnownUsers THEN HTTP_404_NOT_FOUND
    ELSE IF Project_get(id) = None THEN HTTP_404_NOT_FOUND
    ELSE IF actor \notin Usernames(admin_users, id) THEN HTTP_403_FORBIDDEN
    ELSE IF AlreadyJoined(type, target, id) THEN HTTP_429_TOO_MANY_REQUESTS
    ELSE 0

\* the tiers a join inserts into: all_type, all_type[1:], all_type[2:]
TypesFrom(k) == {all_type[i] : i \in k..3}
JoinsMember(type) == type \in TypesFrom(1)
\* variant: the announce insert is guarded by all_type[2:]
JoinsAnnounce_AdminOnly(type) == type \in TypesFrom(3)

JoinsAnnounce(type) == type \in TypesFrom(2)
JoinsAdmin(type) == type \in TypesFrom(3)

\* main.py join_member "join": the rows of the three relations after the
\* inserts, given the username lists the session read (mem_list, au_list,
\* adu_list)
JoinRows(id, target, type, mem_list, au_list, adu_list) ==
    [m |-> IF JoinsMember(type) /\ target \notin mem_list
           THEN AddRow(members, id, target) ELSE members,
     a |-> IF JoinsAnnounce(type) /\ target \notin au_list
           THEN AddRow(announce_users, id, target) ELSE announce_users,
     d |-> IF JoinsAdmin(type) /\ target \notin adu_list
           THEN AddRow(admin_users, id, target) ELSE admin_users]

\* main.py join_member: the status of s.commit()
JoinInsertStatus(id, target, type, mem_list, au_list, adu_list) ==
    LET rows == JoinRows(id, target, type, mem_list, au_list, adu_list) IN
    IF UniqueOk(rows.m) /\ UniqueOk(rows.a) /\ UniqueOk(rows.d)
    THEN HTTP_200_OK ELSE HTTP_500_STORAGE_ERROR

\* main.py join_member: the inserts and s.commit()
JoinInsert(id, target, type, mem_list, au_list, adu_list) ==
    LET rows == JoinRows(id, target, type, mem_list, au_list, adu_list)
        ok == JoinInsertStatus(id, target, type, mem_list, au_list,
                               adu_list) = HTTP_200_OK
    IN  /\ members' = IF ok THEN rows.m ELSE members
        /\ announce_users' = IF ok THEN rows.a ELSE announce_users
        /\ admin_users' = IF ok THEN rows.d ELSE admin_users

JoinMember(actor, id, target, type) ==
    LET st == JoinStatus(actor, id, target, type)
        ml == Usernames(members, id)
        al == Usernames(announce_users, id)
        dl == Usernames(admin_users, id)
    IN
    /\ IF st # 0
       THEN /\ UNCHANGED <<members, announce_users, admin_users>>
            /\ last' = Call("join", actor, id, target, type, st)
       ELSE /\ JoinInsert(id, target, type, ml, al, dl)
            /\ last' = Call("join", actor, id, target, type,
                            JoinInsertStatus(id, target, type, ml, al, dl))
    /\ UNCHANGED <<nextId, is_active, title, skilltags, likes, req>>

\* --------------------------------------------------------- read-only views
\* variant: likes=len(db_proj.members)
from_db_LikesOfMembers(id) ==
    [id |-> id,
     title |-> title[id],
     members |-> Usernames(members, id),
     announce_users |-> Usernames(announce_users, id),
     admin_users |-> Usernames(admin_users, id),
     likes |-> Len_(members, id),
     skilltags |-> skilltags[id]]

\* schema.py Project.from_db: the fields the properties are about
from_db(id) ==
    [id |-> id,
     title |-> title[id],
     members |-> Usernames(members, id),
     announce_users |-> Usernames(announce_users, id),
     admin_users |-> Usernames(admin_users, id),
     likes |-> Len_(likes, id),
     skilltags |-> skilltags[id]]

\* main.py get_project: the status of GET project/{id}
get_project(id) ==
    IF Project_get(id) = None THEN HTTP_404_NOT_FOUND ELSE HTTP_200_OK

\* schema.py Likes.get_from_project: the usernames of the Like rows
get_from_project(id) == Usernames(likes, id)

\* the projects a search ranks: the active ones
SearchProjects == {id \in DOMAIN is_active : id < nextId /\ is_active[id]}

\* the characters of a title, compared exactly
Chars(t) ==
    CASE t = "Foo" -> <<"F", "o", "o">>
      [] t = "Foob" -> <<"F", "o", "o", "b">>
      [] t = "Bar" -> <<"B", "a", "r">>

Min_(a, b) == IF a <= b THEN a ELSE b

\* the Levenshtein edit distance of two character sequences
RECURSIVE Lev(_, _)
Lev(a, b) ==
    IF a = <<>> THEN Len(b)
    ELSE IF b = <<>> THEN Len(a)
    ELSE IF Head(a) = Head(b) THEN Lev(Tail(a), Tail(b))
    ELSE 1 + Min_(Lev(Tail(a), Tail(b)),
                  Min_(Lev(Tail(a), b), Lev(a, Tail(b))))

\* the distance of every query to every title
levenshtein ==
    [q \in SearchTitles |-> [t \in SearchTitles |-> Lev(Chars(q), Chars(t))]]

\* variant: projects at the same distance are ranked by descending id
RankedBefore_TiesDescending(query, x, y) ==
    LET dx == levenshtein[query][title[x]]
        dy == levenshtein[query][title[y]]
    IN  dx < dy \/ (dx = dy /\ x >= y)

\* the order of a search result: ascending distance, then ascending id
RankedBefore(query, x, y) ==
    LET dx == levenshtein[query][title[x]]
        dy == levenshtein[query][title[y]]
    IN  dx < dy \/ (dx = dy /\ x <= y)

\* the projects of S in the order of the search result
RECURSIVE Ranked(_, _)
Ranked(query, S) ==
    IF S = {} THEN <<>>
    ELSE LET first == CHOOSE x \in S : \A y \in S : RankedBefore(query, x, y)
         IN  <<first>> \o Ranked(query, S \ {first})

\* variant: the offset is not applied
search_NoOffset(query, limit, offset) ==
    LET ranked == Ranked(query, SearchProjects) IN
    SubSeq(ranked, 1, Min_(limit, Len(ranked)))

\* ProjectSearchResult.search: the ids of the active projects ranked by the
\* distance of their title to the query, without the first `offset` of
\* them and cut to `limit`
search(query, limit, offset) ==
    LET ranked == Ranked(query, SearchProjects) IN
    SubSeq(ranked, offset + 1, Min_(offset + limit, Len(ranked)))

\* ------------------------------------------------ sequential specification
RECURSIVE Repeat(_, _)
Repeat(x, n) == IF n = 0 THEN <<>> ELSE <<x>> \o Repeat(x, n - 1)

\* variant: the is_active filter of line 431 is missing
RECURSIVE projects_of_user_NoActiveFilter(_, _)
projects_of_user_NoActiveFilter(username, id) ==
    IF id > MaxProj \/ username \notin KnownUsers THEN <<>>
    ELSE Repeat(from_db(id), members[id][username])
         \o projects_of_user_NoActiveFilter(username, id + 1)

\* main.py projects_of_user: one view per ProjectUser row of the username
\* whose project is active, for the projects from id on
RECURSIVE projects_of_user(_, _)
projects_of_user(username, id) ==
    IF id > MaxProj \/ username \notin KnownUsers THEN <<>>
    ELSE (IF is_active[id]
          THEN Repeat(from_db(id), members[id][username]) ELSE <<>>)
         \o projects_of_user(username, id + 1)

Next ==
    \/ \E a \in Actors, t \in Titles, tags \in TagLists :
          CreateProject(a, t, tags)
    \/ \E a \in Actors, id \in IdInputs, t \in Titles, tags \in TagLists,
          ms \in MemberLists :
          UpdateProject(a, id, t, tags, ms)
    \/ \E a \in Actors, id \in IdInputs : DeactivateProject(a, id)
    \/ \E a \in Actors, id \in IdInputs : Like(a, id)
    \/ \E a \in Actors, id \in IdInputs : Unlike(a, id)
    \/ \E a \in Actors, id \in IdInputs, u \in Targets, ty \in MemberType :
          JoinMember(a, id, u, ty)

Spec == Init /\ [][Next]_vars


\* ------------------------------------------------ concurrent specification
\* Handlers run in NumReq request slots.  like, join_member and create run
\* in two steps, the checks and reads first and the inserts and commit
\* second, so that other handlers run in between; a call whose checks fail
\* returns in its first step.  req[r] keeps what the session of slot r read.
InFlight(r) == req[r].pc # "idle"

Slot(pc, actor, id, target, type, ml, al, dl) ==
    [pc |-> pc, actor |-> actor, id |-> id, target |-> target, type |-> type,
     mem_list |-> ml, au_list |-> al, adu_list |-> dl, dup |-> FALSE]

\* the slots other than r running the call of slot r: the same like by the
\* same user, or a join of the same target at the same tier
Twins(r) ==
    {q \in Reqs \ {r} :
        /\ req[q].pc = req[r].pc /\ req[q].actor = req[r].actor
        /\ req[q].id = req[r].id /\ req[q].target = req[r].target
        /\ req[q].type = req[r].type}

\* slot r returns; when it committed, its twins in flight are marked
Return(r, committed) ==
    req' = [q \in Reqs |->
               IF q = r THEN Idle
               ELSE IF committed /\ q \in Twins(r)
                    THEN [req[q] EXCEPT !.dup = TRUE]
                    ELSE req[q]]

\* what the concurrent specification records of a returned call
Returned(op, type, result, dup) ==
    [Call(op, NoUser, None, NoUser, type, result) EXCEPT !.dup = dup]

\* main.py like, lines 220-238: the checks
LikeBegin(r, actor, id) ==
    /\ ~InFlight(r)
    /\ IF LikeStatus(actor, id) # 0
       THEN UNCHANGED req
       ELSE req' = [req EXCEPT ![r] =
                       Slot("like", actor, id, NoUser, MEMBER, {}, {}, {})]
    /\ UNCHANGED <<dbvars, last>>

\* main.py like, lines 240-242: the insert and the commit
LikeCommit(r) ==
    LET st == LikeInsertStatus(req[r].actor, req[r].id) IN
    /\ req[r].pc = "like"
    /\ LikeInsert(req[r].actor, req[r].id)
    /\ last' = Returned("like", MEMBER, st, req[r].dup)
    /\ Return(r, st = HTTP_200_OK)
    /\ UNCHANGED <<nextId, is_active, title, skilltags, members,
                   announce_users, admin_users>>

\* variant: every relationship is read again from the committed rows
SessionList_Reload(type, tier, loaded, snap, cur) == cur

\* the username list a relationship of the session's project yields in the
\* join step: the relationship of the requested tier and admin_users were
\* loaded by the checks (lines 336-348) and are not read again; another
\* relationship is loaded in the join step (lines 358, 367), from the
\* session's snapshot (loaded = TRUE) or from the committed rows
SessionList(type, tier, loaded, snap, cur) ==
    IF tier = type \/ tier = ADMIN \/ loaded THEN snap ELSE cur

\* main.py join_member, lines 313-348: the checks (the acting user is not
\* read after them)
JoinBegin(r, actor, id, target, type) ==
    /\ ~InFlight(r)
    /\ IF JoinStatus(actor, id, target, type) # 0
       THEN UNCHANGED req
       ELSE req' = [req EXCEPT ![r] =
                       Slot("join", NoUser, id, target, type,
                            Usernames(members, id) \cap {target},
                            Usernames(announce_users, id) \cap {target},
                            Usernames(admin_users, id) \cap {target})]
    /\ UNCHANGED <<dbvars, last>>

\* main.py join_member, lines 350-384: the inserts and the commit
JoinCommit(r, loaded) ==
    LET id == req[r].id
        ml == SessionList(req[r].type, MEMBER, loaded, req[r].mem_list,
                          Usernames(members, id))
        al == SessionList(req[r].type, ANNOUNCE, loaded, req[r].au_list,
                          Usernames(announce_users, id))
        dl == SessionList(req[r].type, ADMIN, loaded, req[r].adu_list,
                          Usernames(admin_users, id))
        st == JoinInsertStatus(id, req[r].target, req[r].type, ml, al, dl)
    IN
    /\ req[r].pc = "join"
    /\ JoinInsert(id, req[r].target, req[r].type, ml, al, dl)
    /\ last' = Returned("join", req[r].type, st, req[r].dup)
    /\ Return(r, st = HTTP_200_OK)
    /\ UNCHANGED <<nextId, is_active, title, skilltags, likes>>

\* main.py create_project and schema.py create up to the first commit
CreateBegin(r, actor, t, tags) ==
    /\ ~InFlight(r)
    /\ IF CreateStatus(actor, tags) # 0
       THEN UNCHANGED <<dbvars, req>>
       ELSE /\ nextId <= MaxProj
            /\ InsertProject(t, tags)
            /\ req' = [req EXCEPT ![r] =
                          Slot("create", actor, nextId, NoUser, MEMBER,
                               {}, {}, {})]
            /\ UNCHANGED <<members, announce_users, admin_users, likes>>
    /\ UNCHANGED last

\* schema.py create, the creator's rows and the second commit
CreateCommit(r) ==
    /\ req[r].pc = "create"
    /\ InsertCreator(req[r].id, req[r].actor)
    /\ last' = Returned("create", MEMBER, HTTP_201_CREATED, FALSE)
    /\ Return(r, FALSE)
    /\ UNCHANGED <<nextId, is_active, title, skilltags, likes>>

\* main.py update_project, lines 108-129: the checks, in a session that is
\* closed before update() runs (the acting user is not read after them)
UpdateBegin(r, actor, id, tags) ==
    /\ ~InFlight(r)
    /\ IF UpdateStatus(actor, id, tags) # 0
       THEN UNCHANGED req
       ELSE req' = [req EXCEPT ![r] =
                       Slot("update", NoUser, id, NoUser, MEMBER, {}, {}, {})]
    /\ UNCHANGED <<dbvars, last>>

\* schema.py Project.update, lines 62-65: the session of update() reads the
\* project; None makes the handler return 404 (main.py 133-134)
UpdateGet(r) ==
    /\ req[r].pc = "update"
    /\ IF Project_get(req[r].id) = None
       THEN Return(r, FALSE)
       ELSE req' = [req EXCEPT ![r].pc = "updating"]
    /\ UNCHANGED <<dbvars, last>>

\* schema.py Project.update, lines 67-85: the assignments, the commit and
\* the returned view.  The fields of the request are read here for the
\* first time after the tag check, so they are drawn in this step.
UpdateCommit(r, t, tags, ms) ==
    /\ req[r].pc = "updating"
    /\ \A x \in tags : tag_exist(x)
    /\ Project_update(req[r].id, t, tags, ms)
    /\ Return(r, FALSE)
    /\ UNCHANGED last

NextConc ==
    \/ \E r \in Reqs, a \in Actors, t \in Titles, tags \in TagLists :
          CreateBegin(r, a, t, tags)
    \/ \E r \in Reqs : CreateCommit(r)
    \/ \E r \in Reqs, a \in Actors, id \in IdInputs : LikeBegin(r, a, id)
    \/ \E r \in Reqs : LikeCommit(r)
    \/ \E r \in Reqs, a \in Actors, id \in IdInputs, u \in Targets,
          ty \in MemberType : JoinBegin(r, a, id, u, ty)
    \/ \E r \in Reqs, loaded \in BOOLEAN : JoinCommit(r, loaded)
    \/ \E r \in Reqs, a \in Actors, id \in IdInputs, tags \in TagLists :
          UpdateBegin(r, a, id, tags)
    \/ \E r \in Reqs : UpdateGet(r)
    \/ \E r \in Reqs, t \in Titles, tags \in TagLists, ms \in MemberLists :
          UpdateCommit(r, t, tags, ms)
    \/ \E a \in Actors, id \in IdInputs :
          DeactivateProject_db(a, id) /\ UNCHANGED <<last, req>>
    \/ \E a \in Actors, id \in IdInputs :
          Unlike_db(a, id) /\ UNCHANGED <<last, req>>

SpecConc == Init /\ [][NextConc]_vars

\* ---------------------------------------------------- search specification
\* search reads the project rows only: it is run on every table of
\* MaxSearch projects created by alice, with any titles and any of them
\* deactivated.
CreatorRows ==
    [id \in SearchIds |-> [u \in KnownUsers |-> IF u = "alice" THEN 1 ELSE 0]]

InitSearch ==
    /\ nextId = MaxSearch + 1
    /\ is_active \in [SearchIds -> BOOLEAN]
    /\ title \in [SearchIds -> SearchTitles]
    /\ skilltags = [id \in SearchIds |-> {1}]
    /\ members = CreatorRows
    /\ announce_users = CreatorRows
    /\ admin_users = CreatorRows
    /\ likes = [id \in SearchIds |-> [u \in KnownUsers |-> 0]]
    /\ last = NoCall
    /\ req = [r \in Reqs |-> Idle]

\* what the search specification records of a returned search
SearchCall(query, limit, offset, result) ==
    [op |-> "search", query |-> query, limit |-> limit, offset |-> offset,
     status |-> HTTP_200_OK, result |-> result]

\* main.py search_project
search_project(query, limit, offset) ==
    /\ last' = SearchCall(query, limit, offset, search(query, limit, offset))
    /\ UNCHANGED <<dbvars, req>>

NextSearch ==
    \E q \in SearchTitles, limit \in Limits, offset \in Offsets :
        search_project(q, limit, offset)

SpecSearch == InitSearch /\ [][NextSearch]_vars

\* ------------------------------------------------------------- properties
\* the usernames holding exactly the tier `type` in project id
TierSet(type, id) ==
    IF type = MEMBER THEN Usernames(members, id)
    ELSE IF type = ANNOUNCE THEN Usernames(announce_users, id)
    ELSE Usernames(admin_users, id)

Created == {id \in ProjIds : id < nextId}

\* C1: for every project the admin set is a subset of the announce set and
\* the announce set is a subset of the member set, in every state reached by
\* a sequence of operations.
C1_RoleLattice ==
    \A id \in Created :
        /\ Usernames(admin_users, id) \subseteq Usernames(announce_users, id)
        /\ Usernames(announce_users, id) \subseteq Usernames(members, id)

\* C2: a successful JoinMember(id, u, type) leaves u in the member, announce
\* and admin sets when type is ADMIN; in the member and announce sets with
\* the admin set unchanged when type is ANNOUNCE; in the member set with the
\* announce and admin sets unchanged when type is MEMBER.
C2_JoinTiers ==
    [][(last'.op = "join" /\ last'.result = HTTP_200_OK) =>
          LET id == last'.id
              u == last'.target
              ty == last'.type
          IN  /\ u \in Usernames(members', id)
              /\ ty \in {ANNOUNCE, ADMIN} =>
                     u \in Usernames(announce_users', id)
              /\ ty = ADMIN => u \in Usernames(admin_users', id)
              /\ ty \in {MEMBER, ANNOUNCE} => admin_users' = admin_users
              /\ ty = MEMBER => announce_users' = announce_users]_vars

C2_Witness ==
    /\ last.op = "join" /\ last.result = HTTP_200_OK /\ last.type = ANNOUNCE
    /\ last.target \in Usernames(members, last.id)
    /\ last.target \in Usernames(announce_users, last.id)
    /\ last.target \notin Usernames(admin_users, last.id)

\* C3: a JoinMember by an admin of an active project for a known target
\* fails with 429 when the target already holds the exact requested tier,
\* whatever its other tiers, and succeeds when it does not hold that tier.
C3_ExactTierConflict ==
    [][(/\ last'.op = "join"
        /\ last'.target \in KnownUsers
        /\ Project_get(last'.id) # None
        /\ last'.actor \in Usernames(admin_users, last'.id)) =>
          IF last'.target \in TierSet(last'.type, last'.id)
          THEN /\ last'.result = HTTP_429_TOO_MANY_REQUESTS
               /\ UNCHANGED dbvars
          ELSE last'.result = HTTP_200_OK]_vars

C3_Witness ==
    /\ last.op = "join" /\ last.result = HTTP_429_TOO_MANY_REQUESTS
    /\ last.type = ANNOUNCE
    /\ last.target \in Usernames(announce_users, last.id)
    /\ last.target \notin Usernames(admin_users, last.id)

\* the call returning in this step is the call that returned before it
SameCall == /\ last'.actor = last.actor
            /\ last'.id = last.id
            /\ last.actor \in KnownUsers

\* C4: for one user and one active project, in sequence: a Like right after
\* a successful Like fails with 429; an Unlike right after a successful Like
\* succeeds and a Like right after that Unlike succeeds; a Like succeeds
\* exactly when no like fact exists; an Unlike without a like fact fails
\* with 429.
C4_LikeToggle ==
    [][/\ (/\ last'.op = "like" /\ last'.actor \in KnownUsers
           /\ Project_get(last'.id) # None) =>
              IF LikeCount(last'.actor, last'.id) > 0
              THEN /\ last'.result = HTTP_429_TOO_MANY_REQUESTS
                   /\ likes' = likes
              ELSE /\ last'.result = HTTP_200_OK
                   /\ likes'[last'.id][last'.actor] = 1
       /\ (/\ last.op = "like" /\ last.result = HTTP_200_OK
           /\ last'.op = "like" /\ SameCall) =>
              last'.result = HTTP_429_TOO_MANY_REQUESTS
       /\ (/\ last.op = "like" /\ last.result = HTTP_200_OK
           /\ last'.op = "unlike" /\ SameCall) =>
              /\ last'.result = HTTP_200_OK
              /\ likes'[last'.id][last'.actor] = 0
       /\ (/\ last.op = "unlike" /\ last.result = HTTP_200_OK
           /\ Project_get(last.id) # None
           /\ last'.op = "like" /\ SameCall) =>
              /\ last'.result = HTTP_200_OK
              /\ likes'[last'.id][last'.actor] = 1
       /\ (/\ last'.op = "unlike" /\ last'.actor \in KnownUsers
           /\ LikeCount(last'.actor, last'.id) = 0) =>
              /\ last'.result = HTTP_429_TOO_MANY_REQUESTS
              /\ likes' = likes]_vars

C4_Witness ==
    /\ last.op = "unlike" /\ last.result = HTTP_200_OK
    /\ Project_get(last.id) # None
    /\ LikeCount(last.actor, last.id) = 0

\* C5: of two Like calls for the same (project, user) that both run between
\* check and insert, the one committing first succeeds, the one committing
\* when the like fact is already there fails with 429, and the pair has
\* exactly one like fact afterwards.
C5_ConcurrentLike ==
    [][\A r \in Reqs :
          (req[r].pc = "like" /\ req'[r].pc = "idle") =>
              /\ likes'[req[r].id][req[r].actor] = 1
              /\ IF likes[req[r].id][req[r].actor] > 0
                 THEN last'.result = HTTP_429_TOO_MANY_REQUESTS
                 ELSE last'.result = HTTP_200_OK]_vars

\* C6: of two JoinMember calls for the same project, target and tier that
\* both run between duplicate check and inserts, at most one succeeds: the
\* call that commits when the target already holds the requested tier does
\* not return 200.
C6_ConcurrentJoin ==
    [][\A r \in Reqs :
          (/\ req[r].pc = "join" /\ req'[r].pc = "idle"
           /\ req[r].target \in TierSet(req[r].type, req[r].id)) =>
              last'.result # HTTP_200_OK]_vars

C6_Witness ==
    /\ last.op = "join" /\ last.dup
    /\ last.result = HTTP_500_STORAGE_ERROR

C8_LikeCount ==
    \A id \in Created :
        from_db(id).likes = Cardinality(get_from_project(id))

C8_Witness ==
    /\ last.op = "like" /\ last.result = HTTP_200_OK
    /\ from_db(last.id).likes = 2

\* C9: DeactivateProject of an active project by an authenticated user who
\* is not an admin fails with 403 and leaves is_active unchanged; by an
\* admin it succeeds, the project is inactive, GetProject answers 404 and
\* search no longer ranks it, and the role and like rows are unchanged.
C9_Deactivate ==
    [][\A id \in ProjIds :
          (/\ last'.op = "delete" /\ last'.id = id
           /\ last'.actor \in KnownUsers
           /\ Project_get(id) # None) =>
             IF last'.actor \notin Usernames(admin_users, id)
             THEN /\ last'.result = HTTP_403_FORBIDDEN
                  /\ is_active' = is_active
             ELSE /\ last'.result = HTTP_200_OK
                  /\ ~is_active'[id]
                  /\ get_project(id)' = HTTP_404_NOT_FOUND
                  /\ id \notin SearchProjects'
                  /\ UNCHANGED <<members, announce_users, admin_users,
                                 likes>>]_vars

C9_Witness ==
    /\ last.op = "delete" /\ last.result = HTTP_200_OK
    /\ ~is_active[last.id]
    /\ get_project(last.id) = HTTP_404_NOT_FOUND
    /\ Usernames(likes, last.id) # {}
    /\ Cardinality(Usernames(members, last.id)) = 2

\* C10: Unlike by an authenticated user on a project id that does not exist
\* or is deactivated fails with 404 and leaves the like rows unchanged.
C10_UnlikeNotFound ==
    [][(/\ last'.op = "unlike" /\ last'.actor \in KnownUsers
        /\ Project_get(last'.id) = None) =>
          /\ last'.result = HTTP_404_NOT_FOUND
          /\ likes' = likes]_vars

\* C11: in no state of the concurrent handlers does the row of a project
\* exist while the user creating it is missing from its member, announce or
\* admin rows.
C11_CreateAtomic ==
    \A r \in Reqs :
        (req[r].pc = "create" /\ req[r].id \in Created) =>
            /\ req[r].actor \in Usernames(members, req[r].id)
            /\ req[r].actor \in Usernames(announce_users, req[r].id)
            /\ req[r].actor \in Usernames(admin_users, req[r].id)

\* C12: a CreateProject by an authenticated user whose skill tags hold an
\* id for which tag_exist is false returns 404 and commits no project row
\* and no role row: no stored relation changes.
C12_CreateBadTag ==
    [][\A a \in KnownUsers, t \in Titles, tags \in TagLists :
          (CreateProject(a, t, tags) /\ \E x \in tags : ~tag_exist(x)) =>
              /\ last'.result = HTTP_404_NOT_FOUND
              /\ Created' = Created
              /\ UNCHANGED dbvars]_vars

C12_Witness ==
    /\ last.op = "create" /\ last.result = HTTP_404_NOT_FOUND
    /\ last.actor \in KnownUsers
    /\ Created = {}

\* C13: a JoinMember call fails with 401 without an authenticated user,
\* with 404 for an unknown target or an unknown or inactive project, with
\* 403 when the acting user is not an admin and with 429 for an exact-tier
\* duplicate, and every JoinMember call that does not return 200 leaves the
\* member, announce and admin rows of every project unchanged.
C13_FailingJoin ==
    [][last'.op = "join" =>
          LET a == last'.actor
              u == last'.target
              id == last'.id
              known == a # NoUser /\ u \in KnownUsers
                       /\ Project_get(id) # None
          IN  /\ a = NoUser => last'.result = HTTP_401_UNAUTHORIZED
              /\ (a # NoUser /\ u \notin KnownUsers) =>
                     last'.result = HTTP_404_NOT_FOUND
              /\ (a # NoUser /\ Project_get(id) = None) =>
                     last'.result = HTTP_404_NOT_FOUND
              /\ (known /\ a \notin Usernames(admin_users, id)) =>
                     last'.result = HTTP_403_FORBIDDEN
              /\ (known /\ a \in Usernames(admin_users, id)
                        /\ u \in TierSet(last'.type, id)) =>
                     last'.result = HTTP_429_TOO_MANY_REQUESTS
              /\ last'.result # HTTP_200_OK =>
                     UNCHANGED <<members, announce_users, admin_users>>]_vars

C13_Witness ==
    /\ last.op = "join" /\ last.result = HTTP_403_FORBIDDEN
    /\ last.type = ADMIN
    /\ Project_get(last.id) # None
    /\ last.target \notin Usernames(members, last.id)

\* C14: an UpdateProject by an authenticated user returns 404 for an
\* unknown project id and 403 when the user is not an admin, both without
\* changing anything; an UpdateProject that returns 200 leaves the member,
\* announce, admin and like rows and is_active of every project unchanged.
C14_UpdateFrame ==
    [][(last'.op = "update" /\ last'.actor \in KnownUsers) =>
          /\ Project_get(last'.id) = None =>
                 /\ last'.result = HTTP_404_NOT_FOUND
                 /\ UNCHANGED dbvars
          /\ (/\ Project_get(last'.id) # None
              /\ last'.actor \notin Usernames(admin_users, last'.id)) =>
                 /\ last'.result = HTTP_403_FORBIDDEN
                 /\ UNCHANGED dbvars
          /\ last'.result = HTTP_200_OK =>
                 UNCHANGED <<members, announce_users, admin_users, likes,
                             is_active>>]_vars

\* C18: no step removes a username from the member, announce or admin set
\* of a project; the creator stays in the admin set.
C18_RolesOnlyGrow ==
    [][\A id \in Created :
          /\ Usernames(members, id) \subseteq Usernames(members', id)
          /\ Usernames(announce_users, id)
                 \subseteq Usernames(announce_users', id)
          /\ Usernames(admin_users, id)
                 \subseteq Usernames(admin_users', id)]_vars

\* the member, announce and admin rows, the metadata and is_active of
\* project id
ProjectState(id) ==
    <<members[id], announce_users[id], admin_users[id], title[id],
      skilltags[id], is_active[id]>>

\* C19: every step that changes the role rows, the metadata or is_active of
\* a project that exists is a JoinMember, UpdateProject or DeactivateProject
\* call on that project whose acting user is in its admin set when the step
\* is taken; steps of other users change at most its like rows.
C19_AdminOnly ==
    [][\A id \in Created :
          ProjectState(id)' # ProjectState(id) =>
              /\ last'.op \in {"join", "update", "delete"}
              /\ last'.id = id
              /\ last'.result = HTTP_200_OK
              /\ last'.actor \in Usernames(admin_users, id)]_vars

C19_Witness ==
    /\ last.op = "update" /\ last.result = HTTP_200_OK
    /\ last.actor = "bob"
    /\ title[last.id] = "Bar"
    /\ "alice" \in Usernames(admin_users, last.id)

\* the project ids of the views projects_of_user returns
IdsOfUser(username) ==
    {projects_of_user(username, 1)[i].id :
        i \in 1..Len(projects_of_user(username, 1))}

C15_UpdateVsDeactivate ==
    [][\A r \in Reqs :
          /\ (req[r].pc = "update" /\ req'[r].pc = "idle") =>
                 /\ Project_get(req[r].id) = None
                 /\ UNCHANGED dbvars
          /\ (req[r].pc = "updating" /\ req'[r].pc = "idle") =>
                 Project_get(req[r].id) # None]_vars

\* the distance of the query of the returned search to a project's title
Distance(id) == levenshtein[last.query][title[id]]

\* project x is ranked strictly before y: nearer, or as near with lower id
Precedes(x, y) ==
    \/ Distance(x) < Distance(y)
    \/ Distance(x) = Distance(y) /\ x < y

\* C16: a returned search holds active projects only, in ascending order of
\* edit distance between query and title and, at equal distance, of
\* project id; its i-th element is the active project with offset + i - 1
\* active projects ranked before it, and it holds limit elements or all the
\* elements after the offset; searching again on the unchanged rows
\* returns the same sequence; "Foo" over the titles Foo, Foob, Bar with
\* limit 2 and offset 0 returns the projects titled Foo and Foob.
C16_SearchOrder ==
    last.op = "search" =>
        LET res == last.result
            n == Cardinality(SearchProjects)
            rest == IF n > last.offset THEN n - last.offset ELSE 0
        IN  /\ \A i \in 1..Len(res) :
                  /\ res[i] \in SearchProjects
                  /\ is_active[res[i]]
                  /\ Cardinality({p \in SearchProjects :
                                     Precedes(p, res[i])}) = last.offset + i - 1
            /\ \A i, j \in 1..Len(res) : i < j => Precedes(res[i], res[j])
            /\ Len(res) = IF last.limit < rest THEN last.limit ELSE rest
            /\ res = search(last.query, last.limit, last.offset)
            /\ (/\ title = <<"Foo", "Foob", "Bar">>
                /\ SearchProjects = SearchIds
                /\ last.query = "Foo" /\ last.limit = 2 /\ last.offset = 0) =>
                   res = <<1, 2>>

C16_Witness ==
    /\ last.op = "search" /\ last.offset = 1 /\ Len(last.result) = 2
    /\ Distance(last.result[1]) = Distance(last.result[2])
    /\ Distance(last.result[1]) > 0

\* C17: a search with a non-negative limit and an offset that is at least
\* the number of active projects returns the empty sequence with status
\* 200.
C17_SearchBeyond ==
    (/\ last.op = "search" /\ last.limit >= 0
     /\ last.offset >= Cardinality(SearchProjects)) =>
        /\ last.result = <<>>
        /\ last.status = HTTP_200_OK

C17_Witness ==
    /\ last.op = "search" /\ last.limit > 0
    /\ SearchProjects # {}
    /\ last.offset >= Cardinality(SearchProjects)
    /\ last.result = <<>>

====
